---- MODULE Spec2Model ----
(***************************************************************************)
(* Model of the process execution and job-control core of the custom      *)
(* shell (shell.cpp): the read loop, runCommand, executePipeline, the job *)
(* built-ins fg/bg/jobs and the SIGCHLD handler, together with the child  *)
(* processes the shell forks and the kernel's wait/kill semantics         *)
(* (specification Spec), and of the unified shell (unified_shell.cpp):    *)
(* its read loop, executeCommand, the classifier detectCommandType over   *)
(* the two command tables, selectExecutor and the executors               *)
(* (specification SpecU), and its command history (specification SpecH).  *)
(*                                                                         *)
(* Text is modelled as sequences of one-character strings, so that        *)
(* tokenize, splitByPipe and std::stoi are computed as the code computes  *)
(* them.                                                                   *)
(***************************************************************************)
EXTENDS Integers, Sequences, FiniteSets, TLC

(* ------------------------------ bounds -------------------------------- *)

\* number of process ids the kernel hands out in one session
MaxProcs == 3
\* number of fork() calls that may fail in one session
MaxForkFail == 1
\* longest pipeline typed
MaxStages == 2
\* number of lines typed in one session
MaxLines == 3

(* --------------------------- program constants ------------------------ *)

\* fork() returns -1 when no process was created
NoPid == -1
\* largest value of int: std::stoi throws std::out_of_range above it
IntMax == 2147483647

Pids == 1..MaxProcs

(* ------------------------------ text ---------------------------------- *)

IsDigit(c) == c \in {"0", "1", "2", "3", "4", "5", "6", "7", "8", "9"}

DigitVal(c) ==
    CASE c = "0" -> 0 [] c = "1" -> 1 [] c = "2" -> 2 [] c = "3" -> 3
      [] c = "4" -> 4 [] c = "5" -> 5 [] c = "6" -> 6 [] c = "7" -> 7
      [] c = "8" -> 8 [] c = "9" -> 9

DigitChar(d) ==
    CASE d = 0 -> "0" [] d = 1 -> "1" [] d = 2 -> "2" [] d = 3 -> "3"
      [] d = 4 -> "4" [] d = 5 -> "5" [] d = 6 -> "6" [] d = 7 -> "7"
      [] d = 8 -> "8" [] d = 9 -> "9"

RECURSIVE tokenizeFrom(_, _, _)
tokenizeFrom(s, tok, acc) ==
    IF s = <<>>
    THEN IF tok = <<>> THEN acc ELSE Append(acc, tok)
    ELSE IF Head(s) = " "
         THEN tokenizeFrom(Tail(s), <<>>,
                           IF tok = <<>> THEN acc ELSE Append(acc, tok))
         ELSE tokenizeFrom(Tail(s), Append(tok, Head(s)), acc)

\* tokenize: the whitespace-separated words of a line
tokenize(line) == tokenizeFrom(line, <<>>, <<>>)

RECURSIVE splitFrom(_, _, _)
splitFrom(s, seg, acc) ==
    IF s = <<>>
    THEN IF seg = <<>> THEN acc ELSE Append(acc, seg)
    ELSE IF Head(s) = "|"
         THEN splitFrom(Tail(s), <<>>, Append(acc, seg))
         ELSE splitFrom(Tail(s), Append(seg, Head(s)), acc)

\* splitByPipe: std::getline with delimiter '|'; an empty segment between
\* two bars is kept, nothing is produced once the stream is exhausted
splitByPipe(input) == splitFrom(input, <<>>, <<>>)

RECURSIVE stoiDigits(_, _)
stoiDigits(s, acc) ==
    IF s = <<>> \/ ~IsDigit(Head(s))
    THEN acc
    ELSE stoiDigits(Tail(s), acc * 10 + DigitVal(Head(s)))

\* std::stoi: optional sign, then the longest prefix of digits; throws
\* invalid_argument when there is no digit, out_of_range beyond int
stoi(tok) ==
    LET signed == tok # <<>> /\ Head(tok) \in {"+", "-"}
        body   == IF signed THEN Tail(tok) ELSE tok
        mag    == stoiDigits(body, 0)
        val    == IF signed /\ Head(tok) = "-" THEN 0 - mag ELSE mag
    IN  IF body = <<>> \/ ~IsDigit(Head(body))
        THEN [ok |-> FALSE, val |-> 0]
        ELSE IF val > IntMax \/ val < 0 - IntMax - 1
             THEN [ok |-> FALSE, val |-> 0]
             ELSE [ok |-> TRUE, val |-> val]

\* runCommand: a line whose last character is '&' is a background line
Background(line) == line # <<>> /\ line[Len(line)] = "&"

\* runCommand: the input after input.pop_back() of the '&'
Input(line) == IF Background(line) THEN SubSeq(line, 1, Len(line) - 1) ELSE line

(* ------------------------- words and lines ---------------------------- *)

W_cd      == <<"c", "d">>
W_export  == <<"e", "x", "p", "o", "r", "t">>
W_history == <<"h", "i", "s", "t", "o", "r", "y">>
W_help    == <<"h", "e", "l", "p">>
W_exit    == <<"e", "x", "i", "t">>
W_Q       == <<"$", "Q">>
W_jobs    == <<"j", "o", "b", "s">>
W_fg      == <<"f", "g">>
W_bg      == <<"b", "g">>

\* the redirection operators handleRedirection recognises
RedirOps == {<<">">>, <<">", ">">>, <<"<">>}

\* execvp resolves the program "s" (a sleep-like program) and no other name
Resolvable(name) == name = <<"s">>

\* open() fails on the path "n" and succeeds on every other path
CanOpen(path) == path # <<"n">>

RECURSIVE PipeLine(_)
\* the line s|s|...|s of n stages
PipeLine(n) == IF n = 1 THEN <<"s">> ELSE <<"s", "|">> \o PipeLine(n - 1)

\* the lines typed at the prompt
Lines ==
    { <<"s">>,                          \* foreground command
      <<"s", " ", "&">>,                \* background command
      <<"x">>,                          \* unresolvable command name
      <<"s", " ", ">", " ", "n">>,      \* redirection to an unopenable path
      <<"x", "|", "s">>,                \* pipeline whose first stage cannot be run
      <<"s", " ", ">", " ", "f", " ", ">", " ", "g">>,
                                        \* two redirections of one stream
      <<"s", " ", ">", " ", "f", "|", "s", " ", "<", " ", "g">>,
                                        \* redirections on the stages of a pipeline
      W_cd, W_exit, W_jobs,
      W_fg,                             \* fg without an argument
      W_fg \o <<" ", "a">>,             \* fg with a non-numeric argument
      W_bg \o <<" ", "-">> }
    \cup { PipeLine(n) : n \in 2..MaxStages }
    \cup { PipeLine(n) \o <<" ", "&">> : n \in 2..MaxStages }
    \cup { W_fg \o <<" ", DigitChar(d)>> : d \in 1..(MaxProcs + MaxForkFail) }
    \cup { W_bg \o <<" ", DigitChar(d)>> : d \in 1..(MaxProcs + MaxForkFail) }

\* runCommand and the built-in handlers: what a line is dispatched to
LineKind(line) ==
    LET input == Input(line)
        parts == splitByPipe(input)
        args  == tokenize(input)
    IN  IF Len(parts) > 1 THEN "pipeline"
        ELSE IF args = <<>> THEN "builtin"
        ELSE IF args[1] \in {W_cd, W_export, W_history, W_help} THEN "builtin"
        ELSE IF args[1] \in {W_exit, W_Q} THEN "exit"
        ELSE IF args[1] = W_jobs THEN "jobs"
        ELSE IF args[1] \in {W_fg, W_bg} /\ Len(args) = 2 THEN "jobctl"
        ELSE "external"

\* the number of fork() calls a line leads to
ForksOf(line) ==
    CASE LineKind(line) = "pipeline" -> Len(splitByPipe(Input(line)))
      [] LineKind(line) = "external" -> 1
      [] OTHER -> 0

\* what a standard stream of a process is connected to
Tty       == [k |-> "tty", n |-> 0, path |-> <<>>]
Pipe(n)   == [k |-> "pipe", n |-> n, path |-> <<>>]
File(path) == [k |-> "file", n |-> 0, path |-> path]

\* executePipeline: both ends of the n - 1 pipes made for n stages, pipe k
\* being the one between stage k and stage k + 1
PipeEnds(n) == {<<k, e>> : k \in 0..(n - 2), e \in {"r", "w"}}

RECURSIVE handleRedirectionFrom(_, _, _, _)
handleRedirectionFrom(args, i, in, out) ==
    IF i > Len(args)
    THEN [args |-> args, in |-> in, out |-> out]
    ELSE IF args[i] \in RedirOps
         THEN IF i + 1 > Len(args)
              THEN handleRedirectionFrom(args, i + 1, in, out)
              ELSE LET opened == CanOpen(args[i + 1])
                       rest   == SubSeq(args, 1, i - 1)
                                   \o SubSeq(args, i + 2, Len(args))
                   IN  IF args[i] = <<"<">>
                       THEN handleRedirectionFrom(rest, i,
                              IF opened THEN File(args[i + 1]) ELSE in,
                              out)
                       ELSE handleRedirectionFrom(rest, i, in,
                              IF opened THEN File(args[i + 1]) ELSE out)
         ELSE handleRedirectionFrom(args, i + 1, in, out)

\* handleRedirection: every operator followed by a word is applied left to
\* right and erased with its word; dup2 of a failed open changes nothing
handleRedirection(args, in, out) == handleRedirectionFrom(args, 1, in, out)

(* ------------------------------ state --------------------------------- *)

VARIABLES
    pc,         \* where the main line of the shell is
    cur,        \* the line runCommand is running, <<>> at the prompt
    pid,        \* runCommand: the value fork() returned
    i,          \* executePipeline: the loop counter
    it,         \* handleJobBuiltins: position of the iterator in jobs
    jobs,       \* the job table
    nextJobId,  \* the next job identifier
    proc,       \* the kernel's process table, per process id
    ev,         \* stop/continue of a child not yet reported by waitpid
    sigchld,    \* SIGCHLD is pending
    inHandler,  \* sigchldHandler is running on the main line's stack
    out,        \* what the main line printed for the current line
    kids,       \* the processes forked for the current line
    got,        \* the processes the main line's waits collected for it
    nwaits,     \* the number of wait calls the main line completed for it
    sent,       \* the targets of the kill calls made for it
    created,    \* the job identifiers handed out, in creation order
    nfail,      \* the number of fork() calls that failed
    nlines,     \* the number of lines read
    pipefds     \* executePipeline: the pipe ends the shell has open

vars == <<pc, cur, pid, i, it, jobs, nextJobId, proc, ev, sigchld, inHandler,
          out, kids, got, nwaits, sent, created, nfail, nlines, pipefds>>

(* ----------------------- state of the unified shell ------------------- *)

VARIABLES
    build,        \* the build of the unified shell: "posix" or "win32"
    available,    \* what isAvailable() of each executor answers
    currentMode,  \* UnifiedShell::currentMode
    upc,          \* where the unified shell's main line is
    input,        \* run: the words of the line read
    args,         \* executeCommand: the argument vector handed on
    background,   \* executeCommand: the line ended with "&"
    executor,     \* executeCommand: the executor selectExecutor returned
    uprocs,       \* the processes the unified shell forked, by process id
    upid,         \* LinuxExecutor::execute: the value fork() returned
    ret,          \* the value executeCommand returns
    reported,     \* the diagnostics printed for the current line
    ulines,       \* the number of lines read
    lastFailed,   \* the previous line ran a foreground command whose execvp failed
    detectedMode  \* selectExecutor: what detectCommandType returned, if called

uvars == <<build, available, currentMode, upc, input, args, background,
           executor, uprocs, upid, ret, reported, ulines, lastFailed,
           detectedMode>>

(* ------------------ history of the unified shell --------------------- *)

VARIABLES
    history,      \* UnifiedShell::history
    added,        \* the commands loaded and added since the history was last empty
    nadds,        \* the number of addToHistory calls made
    hpc           \* "run" while the history is in use, "off" otherwise

hvars == <<history, added, nadds, hpc>>

\* the history is not in use
HistoryOff ==
    /\ history = <<>>
    /\ added = <<>>
    /\ nadds = 0
    /\ hpc = "off"

\* the unified shell is not running
UnifiedOff ==
    /\ build = "posix"
    /\ available = [m \in {"WINDOWS", "LINUX"} |-> FALSE]
    /\ currentMode = "AUTO_DETECT"
    /\ upc = "off"
    /\ input = <<>>
    /\ args = <<>>
    /\ background = FALSE
    /\ executor = "none"
    /\ uprocs = <<>>
    /\ upid = 0
    /\ ret = 0
    /\ reported = {}
    /\ ulines = 0
    /\ lastFailed = FALSE
    /\ detectedMode = "none"

\* fds: the pipe ends the process has open on descriptors other than its
\* standard input and output
NoProc == [st |-> "none", cmd |-> <<>>, stage |-> 0, n |-> 0, in |-> Tty, out |-> Tty,
           fds |-> {}]
\* a process that was reaped: the kernel has dropped its entry
Reaped == [NoProc EXCEPT !.st = "reaped"]
\* a process after a successful execvp: the program runs on the streams
\* the child set up
Program(sin, sout) == [NoProc EXCEPT !.st = "running", !.in = sin, !.out = sout]
\* a terminated process that was not waited for yet
Zombie == [NoProc EXCEPT !.st = "zombie"]
NoOut  == [kind |-> "none", rows |-> <<>>]

Init ==
    /\ pc = "read"
    /\ cur = <<>>
    /\ pid = 0
    /\ i = 0
    /\ it = 0
    /\ jobs = <<>>
    /\ nextJobId = 1
    /\ proc = [p \in Pids |-> NoProc]
    /\ ev = [p \in Pids |-> "none"]
    /\ sigchld = FALSE
    /\ inHandler = FALSE
    /\ out = NoOut
    /\ kids = {}
    /\ got = {}
    /\ nwaits = 0
    /\ sent = {}
    /\ created = <<>>
    /\ nfail = 0
    /\ nlines = 0
    /\ pipefds = {}
    /\ UnifiedOff
    /\ HistoryOff

(* ------------------------------ kernel -------------------------------- *)

\* the processes that are children of the shell: created and not yet reaped
Children == {p \in Pids : proc[p].st \in {"forked", "running", "stopped", "zombie"}}
Zombies  == {p \in Pids : proc[p].st = "zombie"}
Unused   == {p \in Pids : proc[p].st = "none"}
Terminated(p) == proc[p].st \in {"zombie", "reaped"}

\* the children a waitpid with WUNTRACED | WCONTINUED can report
Reportable == {p \in Pids : proc[p].st = "zombie" \/ ev[p] # "none"}

\* the processes kill(target, SIGCONT) resumes: target -1 is every process
\* the shell may signal, a reaped or failed pid is no process
Resumed(target) ==
    {p \in Pids : /\ proc[p].st = "stopped"
                  /\ (target = p \/ target = NoPid)}

\* kill(target, SIGCONT)
Kill(target) ==
    /\ proc' = [p \in Pids |-> IF p \in Resumed(target)
                               THEN [proc[p] EXCEPT !.st = "running"]
                               ELSE proc[p]]
    /\ ev' = [p \in Pids |-> IF p \in Resumed(target) THEN "continued" ELSE ev[p]]
    /\ sigchld' = (sigchld \/ Resumed(target) # {})
    /\ sent' = sent \cup {target}

\* a blocking waitpid(target, nullptr, 0) of the main line returns r: a
\* terminated child it reaps, or NoPid (ECHILD) when there is no child to
\* wait for; it blocks otherwise.  target -1 (and wait()) is any child.
WaitReturns(target, r) ==
    IF target = NoPid
    THEN \/ r \in Zombies
         \/ r = NoPid /\ Children = {}
    ELSE \/ r = target /\ target \in Zombies
         \/ r = NoPid /\ target \notin Children

\* the effect of that return on the process table and the bookkeeping
Collect(r) ==
    /\ proc' = IF r = NoPid THEN proc ELSE [proc EXCEPT ![r] = Reaped]
    /\ got' = IF r = NoPid THEN got ELSE got \cup {r}
    /\ nwaits' = nwaits + 1

\* fork() returns the new child's process id, or -1 when it fails
ForkResults ==
    (IF Unused = {} THEN {} ELSE {CHOOSE p \in Unused : \A q \in Unused : p <= q})
    \cup (IF nfail < MaxForkFail THEN {NoPid} ELSE {})

\* the child of a successful fork runs stage number stage (from 0) of n,
\* whose text is cmd, with the shell's own standard streams and a copy of
\* every pipe descriptor the shell has open
Fork(r, cmd, stage, n) ==
    /\ proc' = IF r = NoPid THEN proc
               ELSE [proc EXCEPT ![r] = [st |-> "forked", cmd |-> cmd,
                                         stage |-> stage, n |-> n,
                                         in |-> Tty, out |-> Tty,
                                         fds |-> pipefds]]
    /\ kids' = IF r = NoPid THEN kids ELSE kids \cup {r}
    /\ nfail' = IF r = NoPid THEN nfail + 1 ELSE nfail

\* the pipe ends process p has open: the copies it got at the fork and has
\* not closed, and the ends its standard input and output are on
Holds(p) ==
    IF proc[p].st \in {"forked", "running", "stopped"}
    THEN proc[p].fds
         \cup (IF proc[p].in.k = "pipe" THEN {<<proc[p].in.n, "r">>} ELSE {})
         \cup (IF proc[p].out.k = "pipe" THEN {<<proc[p].out.n, "w">>} ELSE {})
    ELSE {}

(* ----------------------------- children ------------------------------- *)

\* variant: the child does not close the pipe descriptors it inherited
ChildExecKeepsPipes(p) ==
    /\ pc \notin {"done", "aborted"}
    /\ proc[p].st = "forked"
    /\ LET c     == proc[p]
           win   == IF c.stage > 0 THEN Pipe(c.stage - 1) ELSE c.in
           wout  == IF c.stage < c.n - 1 THEN Pipe(c.stage) ELSE c.out
           left  == c.fds
           r     == handleRedirection(tokenize(c.cmd), win, wout)
           ok    == r.args # <<>> /\ Resolvable(r.args[1])
       IN  /\ proc' = [proc EXCEPT ![p] =
                          IF ok THEN [Program(r.in, r.out) EXCEPT !.fds = left]
                          ELSE Zombie]
           /\ sigchld' = (sigchld \/ ~ok)
    /\ UNCHANGED <<pc, cur, pid, i, it, jobs, nextJobId, ev, inHandler, out,
                   kids, got, nwaits, sent, created, nfail,
                   nlines,
                   pipefds>>
    /\ UNCHANGED uvars
    /\ UNCHANGED hvars

\* the child's side of fork: dup2 of the pipe ends, close of all 2(n-1)
\* pipe descriptors, handleRedirection, execvp; a failed execvp prints a
\* diagnostic and the child calls exit(1)
ChildExec(p) ==
    /\ pc \notin {"done", "aborted"}
    /\ proc[p].st = "forked"
    /\ LET c     == proc[p]
           win   == IF c.stage > 0 THEN Pipe(c.stage - 1) ELSE c.in
           wout  == IF c.stage < c.n - 1 THEN Pipe(c.stage) ELSE c.out
           left  == c.fds \ PipeEnds(c.n)
           r     == handleRedirection(tokenize(c.cmd), win, wout)
           ok    == r.args # <<>> /\ Resolvable(r.args[1])
       IN  /\ proc' = [proc EXCEPT ![p] =
                          IF ok THEN [Program(r.in, r.out) EXCEPT !.fds = left]
                          ELSE Zombie]
           /\ sigchld' = (sigchld \/ ~ok)
    /\ UNCHANGED <<pc, cur, pid, i, it, jobs, nextJobId, ev, inHandler, out,
                   kids, got, nwaits, sent, created, nfail,
                   nlines,
                   pipefds>>
    /\ UNCHANGED uvars
    /\ UNCHANGED hvars

\* a running or stopped program terminates (it exits or is killed)
ProcExit(p) ==
    /\ pc \notin {"done", "aborted"}
    /\ proc[p].st \in {"running", "stopped"}
    /\ proc' = [proc EXCEPT ![p] = Zombie]
    /\ ev' = [ev EXCEPT ![p] = "none"]
    /\ sigchld' = TRUE
    /\ UNCHANGED <<pc, cur, pid, i, it, jobs, nextJobId, inHandler, out,
                   kids, got, nwaits, sent, created, nfail,
                   nlines,
                   pipefds>>
    /\ UNCHANGED uvars
    /\ UNCHANGED hvars

\* a running program is stopped by a signal
ProcStop(p) ==
    /\ pc \notin {"done", "aborted"}
    /\ proc[p].st = "running"
    /\ proc' = [proc EXCEPT ![p].st = "stopped"]
    /\ ev' = [ev EXCEPT ![p] = "stopped"]
    /\ sigchld' = TRUE
    /\ UNCHANGED <<pc, cur, pid, i, it, jobs, nextJobId, inHandler, out,
                   kids, got, nwaits, sent, created, nfail,
                   nlines,
                   pipefds>>
    /\ UNCHANGED uvars
    /\ UNCHANGED hvars

\* a stopped program is continued by a signal from outside the shell
ProcCont(p) ==
    /\ pc \notin {"done", "aborted"}
    /\ proc[p].st = "stopped"
    /\ proc' = [proc EXCEPT ![p].st = "running"]
    /\ ev' = [ev EXCEPT ![p] = "continued"]
    /\ sigchld' = TRUE
    /\ UNCHANGED <<pc, cur, pid, i, it, jobs, nextJobId, inHandler, out,
                   kids, got, nwaits, sent, created, nfail,
                   nlines,
                   pipefds>>
    /\ UNCHANGED uvars
    /\ UNCHANGED hvars

(* -------------------------- sigchldHandler ---------------------------- *)

\* delivery of a pending SIGCHLD: the handler interrupts the main line
HandlerEnter ==
    /\ pc \notin {"done", "aborted"}
    /\ sigchld /\ ~inHandler
    /\ inHandler' = TRUE
    /\ sigchld' = FALSE
    /\ UNCHANGED <<pc, cur, pid, i, it, jobs, nextJobId, proc, ev, out,
                   kids, got, nwaits, sent, created, nfail,
                   nlines,
                   pipefds>>
    /\ UNCHANGED uvars
    /\ UNCHANGED hvars

\* the state the handler records for a status: running only for continued
StatusRunning(p) == proc[p].st # "zombie" /\ ev[p] = "continued"

\* variant: the handler drops the job of a process that terminated
HandlerReapRemoves(p) ==
    /\ inHandler
    /\ p \in Reportable
    /\ jobs' = IF proc[p].st = "zombie"
               THEN SelectSeq(jobs, LAMBDA j : j.pid # p)
               ELSE [k \in 1..Len(jobs) |->
                       IF jobs[k].pid = p
                       THEN [jobs[k] EXCEPT !.running = StatusRunning(p)]
                       ELSE jobs[k]]
    /\ proc' = IF proc[p].st = "zombie"
               THEN [proc EXCEPT ![p] = Reaped] ELSE proc
    /\ ev' = [ev EXCEPT ![p] = "none"]
    /\ UNCHANGED <<pc, cur, pid, i, it, nextJobId, sigchld, inHandler, out,
                   kids, got, nwaits, sent, created, nfail,
                   nlines,
                   pipefds>>
    /\ UNCHANGED uvars
    /\ UNCHANGED hvars

\* one turn of the loop: waitpid(-1, WNOHANG|WUNTRACED|WCONTINUED)
\* returned p, and every job of that process is updated
HandlerReap(p) ==
    /\ inHandler
    /\ p \in Reportable
    /\ jobs' = [k \in 1..Len(jobs) |->
                  IF jobs[k].pid = p
                  THEN [jobs[k] EXCEPT !.running = StatusRunning(p)]
                  ELSE jobs[k]]
    /\ proc' = IF proc[p].st = "zombie"
               THEN [proc EXCEPT ![p] = Reaped] ELSE proc
    /\ ev' = [ev EXCEPT ![p] = "none"]
    /\ UNCHANGED <<pc, cur, pid, i, it, nextJobId, sigchld, inHandler, out,
                   kids, got, nwaits, sent, created, nfail,
                   nlines,
                   pipefds>>
    /\ UNCHANGED uvars
    /\ UNCHANGED hvars

\* waitpid returned 0 or -1: nothing is ready, the handler returns
HandlerReturn ==
    /\ inHandler
    /\ Reportable = {}
    /\ inHandler' = FALSE
    /\ UNCHANGED <<pc, cur, pid, i, it, jobs, nextJobId, proc, ev, sigchld,
                   out, kids, got, nwaits, sent, created, nfail,
                   nlines,
                   pipefds>>
    /\ UNCHANGED uvars
    /\ UNCHANGED hvars

(* ------------------------ main line: read loop ------------------------ *)

\* main: readline returned the non-empty line, which is handed to runCommand
Accepts(line) ==
    /\ pc = "read" /\ ~inHandler
    /\ line \in Lines
    /\ ForksOf(line) <= Cardinality(Unused)
    /\ nlines < MaxLines
    /\ nlines' = nlines + 1
    /\ cur' = line

\* main: readline returned no line (end of input), the loop is left
ReadEOF ==
    /\ pc = "read" /\ ~inHandler
    /\ pc' = "done"
    /\ UNCHANGED <<cur, pid, i, it, jobs, nextJobId, proc, ev, sigchld,
                   inHandler, out, kids, got, nwaits, sent, created, nfail,
                   nlines,
                   pipefds>>
    /\ UNCHANGED uvars
    /\ UNCHANGED hvars

\* handleBuiltins: cd, export, history, help and the empty line
RunBuiltin(line) ==
    /\ Accepts(line)
    /\ LineKind(line) = "builtin"
    /\ out' = [kind |-> "builtin", rows |-> <<>>]
    /\ pc' = "ret"
    /\ UNCHANGED <<pid, i, it, jobs, nextJobId, proc, ev, sigchld, inHandler,
                   kids, got, nwaits, sent, created, nfail,
                   pipefds>>
    /\ UNCHANGED uvars
    /\ UNCHANGED hvars

\* handleBuiltins: exit and $Q call exit(0)
RunExit(line) ==
    /\ Accepts(line)
    /\ LineKind(line) = "exit"
    /\ pc' = "done"
    /\ UNCHANGED <<pid, i, it, jobs, nextJobId, proc, ev, sigchld, inHandler,
                   out, kids, got, nwaits, sent, created, nfail,
                   pipefds>>
    /\ UNCHANGED uvars
    /\ UNCHANGED hvars

\* handleJobBuiltins, jobs: one row per job, Running or Stopped/Done
RunJobs(line) ==
    /\ Accepts(line)
    /\ LineKind(line) = "jobs"
    /\ out' = [kind |-> "jobs",
               rows |-> [k \in 1..Len(jobs) |->
                           [id |-> jobs[k].id, running |-> jobs[k].running,
                            cmdline |-> jobs[k].cmdline]]]
    /\ pc' = "ret"
    /\ UNCHANGED <<pid, i, it, jobs, nextJobId, proc, ev, sigchld, inHandler,
                   kids, got, nwaits, sent, created, nfail,
                   pipefds>>
    /\ UNCHANGED uvars
    /\ UNCHANGED hvars

\* handleJobBuiltins, fg/bg: the job id typed
JobArg(line) == stoi(tokenize(Input(line))[2])

\* variant: the loop compares with <= and stops at a job with a smaller id
FoundAtMost(jid) == {k \in 1..Len(jobs) : jobs[k].id <= jid}

\* handleJobBuiltins, fg/bg: the positions of the jobs with that id
Found(jid) == {k \in 1..Len(jobs) : jobs[k].id = jid}

\* handleJobBuiltins, fg/bg: std::stoi throws on the argument; nothing
\* catches the exception and the shell is terminated
JobCtlThrow(line) ==
    /\ Accepts(line)
    /\ LineKind(line) = "jobctl"
    /\ ~JobArg(line).ok
    /\ pc' = "aborted"
    /\ UNCHANGED <<pid, i, it, jobs, nextJobId, proc, ev, sigchld, inHandler,
                   out, kids, got, nwaits, sent, created, nfail,
                   pipefds>>
    /\ UNCHANGED uvars
    /\ UNCHANGED hvars

\* handleJobBuiltins, fg/bg: no job has the id
JobCtlNotFound(line) ==
    /\ Accepts(line)
    /\ LineKind(line) = "jobctl"
    /\ JobArg(line).ok
    /\ Found(JobArg(line).val) = {}
    /\ out' = [kind |-> "job not found", rows |-> <<>>]
    /\ pc' = "ret"
    /\ UNCHANGED <<pid, i, it, jobs, nextJobId, proc, ev, sigchld, inHandler,
                   kids, got, nwaits, sent, created, nfail,
                   pipefds>>
    /\ UNCHANGED uvars
    /\ UNCHANGED hvars

\* handleJobBuiltins, fg/bg: the loop stops at the first job with the id
JobCtlFound(line) ==
    /\ Accepts(line)
    /\ LineKind(line) = "jobctl"
    /\ JobArg(line).ok
    /\ Found(JobArg(line).val) # {}
    /\ it' = CHOOSE k \in Found(JobArg(line).val) :
                 \A m \in Found(JobArg(line).val) : k <= m
    /\ pc' = "jc_kill"
    /\ UNCHANGED <<pid, i, jobs, nextJobId, proc, ev, sigchld, inHandler,
                   out, kids, got, nwaits, sent, created, nfail,
                   pipefds>>
    /\ UNCHANGED uvars
    /\ UNCHANGED hvars

\* variant: executePipeline goes to its forks without creating a pipe
RunPipelineNoPipes(line) ==
    /\ Accepts(line)
    /\ LineKind(line) = "pipeline"
    /\ pipefds' = {}
    /\ i' = 0
    /\ pc' = "pipe_fork"
    /\ UNCHANGED <<pid, it, jobs, nextJobId, proc, ev, sigchld, inHandler,
                   out, kids, got, nwaits, sent, created, nfail>>
    /\ UNCHANGED uvars
    /\ UNCHANGED hvars

\* runCommand: a line of several stages goes to executePipeline, which
\* creates the pipes
RunPipeline(line) ==
    /\ Accepts(line)
    /\ LineKind(line) = "pipeline"
    /\ pipefds' = PipeEnds(Len(splitByPipe(Input(line))))
    /\ i' = 0
    /\ pc' = "pipe_fork"
    /\ UNCHANGED <<pid, it, jobs, nextJobId, proc, ev, sigchld, inHandler,
                   out, kids, got, nwaits, sent, created, nfail>>
    /\ UNCHANGED uvars
    /\ UNCHANGED hvars

\* runCommand: any other line is an external command
RunExternal(line) ==
    /\ Accepts(line)
    /\ LineKind(line) = "external"
    /\ pc' = "fork"
    /\ UNCHANGED <<pid, i, it, jobs, nextJobId, proc, ev, sigchld, inHandler,
                   out, kids, got, nwaits, sent, created, nfail,
                   pipefds>>
    /\ UNCHANGED uvars
    /\ UNCHANGED hvars

\* runCommand has returned: main goes back to readline
Return ==
    /\ pc = "ret" /\ ~inHandler
    /\ pc' = "read"
    /\ cur' = <<>>
    /\ pid' = 0
    /\ i' = 0
    /\ it' = 0
    /\ out' = NoOut
    /\ kids' = {}
    /\ got' = {}
    /\ nwaits' = 0
    /\ sent' = {}
    /\ UNCHANGED <<jobs, nextJobId, proc, ev, sigchld, inHandler, created, nfail,
                   nlines,
                   pipefds>>
    /\ UNCHANGED uvars
    /\ UNCHANGED hvars

(* ----------------------- main line: fg and bg ------------------------- *)

IsFg == tokenize(Input(cur))[1] = W_fg

\* kill(it->pid, SIGCONT)
JcKill ==
    /\ pc = "jc_kill" /\ ~inHandler
    /\ Kill(jobs[it].pid)
    /\ pc' = IF IsFg THEN "jc_wait" ELSE "jc_mark"
    /\ UNCHANGED <<cur, pid, i, it, jobs, nextJobId, inHandler, out,
                   kids, got, nwaits, created, nfail,
                   nlines,
                   pipefds>>
    /\ UNCHANGED uvars
    /\ UNCHANGED hvars

\* variant: the wait is made with WNOHANG and returns at once
JcWaitNoHang ==
    /\ pc = "jc_wait" /\ ~inHandler
    /\ \E r \in Pids \cup {NoPid} :
          /\ \/ WaitReturns(jobs[it].pid, r)
             \/ r = NoPid
          /\ Collect(r)
    /\ pc' = "jc_erase"
    /\ UNCHANGED <<cur, pid, i, it, jobs, nextJobId, ev, sigchld, inHandler,
                   out, kids, sent, created, nfail,
                   nlines,
                   pipefds>>
    /\ UNCHANGED uvars
    /\ UNCHANGED hvars

\* fg: waitpid(it->pid, nullptr, 0)
JcWait ==
    /\ pc = "jc_wait" /\ ~inHandler
    /\ \E r \in Pids \cup {NoPid} :
          /\ WaitReturns(jobs[it].pid, r)
          /\ Collect(r)
    /\ pc' = "jc_erase"
    /\ UNCHANGED <<cur, pid, i, it, jobs, nextJobId, ev, sigchld, inHandler,
                   out, kids, sent, created, nfail,
                   nlines,
                   pipefds>>
    /\ UNCHANGED uvars
    /\ UNCHANGED hvars

\* fg: jobs.erase(it)
JcErase ==
    /\ pc = "jc_erase" /\ ~inHandler
    /\ jobs' = [k \in 1..(Len(jobs) - 1) |->
                  IF k < it THEN jobs[k] ELSE jobs[k + 1]]
    /\ pc' = "ret"
    /\ UNCHANGED <<cur, pid, i, it, nextJobId, proc, ev, sigchld, inHandler,
                   out, kids, got, nwaits, sent, created, nfail,
                   nlines,
                   pipefds>>
    /\ UNCHANGED uvars
    /\ UNCHANGED hvars

\* variant: bg returns without marking the job
JcMarkNothing ==
    /\ pc = "jc_mark" /\ ~inHandler
    /\ pc' = "ret"
    /\ UNCHANGED <<cur, pid, i, it, jobs, nextJobId, proc, ev, sigchld,
                   inHandler, out, kids, got, nwaits, sent, created, nfail,
                   nlines,
                   pipefds>>
    /\ UNCHANGED uvars
    /\ UNCHANGED hvars

\* bg: it->running = true
JcMark ==
    /\ pc = "jc_mark" /\ ~inHandler
    /\ jobs' = [jobs EXCEPT ![it].running = TRUE]
    /\ pc' = "ret"
    /\ UNCHANGED <<cur, pid, i, it, nextJobId, proc, ev, sigchld, inHandler,
                   out, kids, got, nwaits, sent, created, nfail,
                   nlines,
                   pipefds>>
    /\ UNCHANGED uvars
    /\ UNCHANGED hvars

(* -------------------- main line: a single command --------------------- *)

\* runCommand: pid = fork()
ForkCommand ==
    /\ pc = "fork" /\ ~inHandler
    /\ \E r \in ForkResults :
          /\ Fork(r, Input(cur), 0, 1)
          /\ pid' = r
    /\ pc' = IF Background(cur) THEN "bg_push" ELSE "fg_wait"
    /\ UNCHANGED <<cur, i, it, jobs, nextJobId, ev, sigchld, inHandler, out,
                   got, nwaits, sent, created,
                   nlines,
                   pipefds>>
    /\ UNCHANGED uvars
    /\ UNCHANGED hvars

\* runCommand, foreground: waitpid(pid, nullptr, 0)
FgWait ==
    /\ pc = "fg_wait" /\ ~inHandler
    /\ \E r \in Pids \cup {NoPid} :
          /\ WaitReturns(pid, r)
          /\ Collect(r)
    /\ pc' = "ret"
    /\ UNCHANGED <<cur, pid, i, it, jobs, nextJobId, ev, sigchld, inHandler,
                   out, kids, sent, created, nfail,
                   nlines,
                   pipefds>>
    /\ UNCHANGED uvars
    /\ UNCHANGED hvars

\* variant: the job is recorded as not running
BgPushNotRunning ==
    /\ pc = "bg_push" /\ ~inHandler
    /\ jobs' = Append(jobs, [id |-> nextJobId, pid |-> pid,
                             cmdline |-> Input(cur), running |-> FALSE])
    /\ nextJobId' = nextJobId + 1
    /\ created' = Append(created, nextJobId)
    /\ pc' = "bg_print"
    /\ UNCHANGED <<cur, pid, i, it, proc, ev, sigchld, inHandler, out,
                   kids, got, nwaits, sent, nfail,
                   nlines,
                   pipefds>>
    /\ UNCHANGED uvars
    /\ UNCHANGED hvars

\* variant: the id of a new job is the size of the table plus one
BgPushIdFromSize ==
    /\ pc = "bg_push" /\ ~inHandler
    /\ jobs' = Append(jobs, [id |-> Len(jobs) + 1, pid |-> pid,
                             cmdline |-> Input(cur), running |-> TRUE])
    /\ nextJobId' = Len(jobs) + 2
    /\ created' = Append(created, Len(jobs) + 1)
    /\ pc' = "bg_print"
    /\ UNCHANGED <<cur, pid, i, it, proc, ev, sigchld, inHandler, out,
                   kids, got, nwaits, sent, nfail,
                   nlines,
                   pipefds>>
    /\ UNCHANGED uvars
    /\ UNCHANGED hvars

\* runCommand, background: jobs.push_back({nextJobId++, pid, input, true})
BgPush ==
    /\ pc = "bg_push" /\ ~inHandler
    /\ jobs' = Append(jobs, [id |-> nextJobId, pid |-> pid,
                             cmdline |-> Input(cur), running |-> TRUE])
    /\ nextJobId' = nextJobId + 1
    /\ created' = Append(created, nextJobId)
    /\ pc' = "bg_print"
    /\ UNCHANGED <<cur, pid, i, it, proc, ev, sigchld, inHandler, out,
                   kids, got, nwaits, sent, nfail,
                   nlines,
                   pipefds>>
    /\ UNCHANGED uvars
    /\ UNCHANGED hvars

\* runCommand, background: the line "[id] pid" is printed
BgPrint ==
    /\ pc = "bg_print" /\ ~inHandler
    /\ out' = [kind |-> "background",
               rows |-> <<[id |-> jobs[Len(jobs)].id, pid |-> pid]>>]
    /\ pc' = "ret"
    /\ UNCHANGED <<cur, pid, i, it, jobs, nextJobId, proc, ev, sigchld,
                   inHandler, kids, got, nwaits, sent, created, nfail,
                   nlines,
                   pipefds>>
    /\ UNCHANGED uvars
    /\ UNCHANGED hvars

(* ------------------- main line: executePipeline ----------------------- *)

Stages == splitByPipe(Input(cur))

\* the loop of forks: stage i is forked, the parent goes on
PipeFork ==
    /\ pc = "pipe_fork" /\ ~inHandler
    /\ i < Len(Stages)
    /\ \E r \in ForkResults :
          /\ Fork(r, Stages[i + 1], i, Len(Stages))
          /\ pid' = r
    /\ i' = i + 1
    /\ UNCHANGED <<pc, cur, it, jobs, nextJobId, ev, sigchld, inHandler, out,
                   got, nwaits, sent, created,
                   nlines,
                   pipefds>>
    /\ UNCHANGED uvars
    /\ UNCHANGED hvars

\* variant: the parent goes on to wait with its pipe descriptors open
PipeCloseNothing ==
    /\ pc = "pipe_fork" /\ ~inHandler
    /\ i = Len(Stages)
    /\ i' = 0
    /\ pc' = "pipe_wait"
    /\ UNCHANGED <<cur, pid, it, jobs, nextJobId, proc, ev, sigchld,
                   inHandler, out, kids, got, nwaits, sent, created, nfail,
                   nlines, pipefds>>
    /\ UNCHANGED uvars
    /\ UNCHANGED hvars

\* after the last fork the parent closes its pipe descriptors
PipeClose ==
    /\ pc = "pipe_fork" /\ ~inHandler
    /\ i = Len(Stages)
    /\ pipefds' = {}
    /\ i' = 0
    /\ pc' = "pipe_wait"
    /\ UNCHANGED <<cur, pid, it, jobs, nextJobId, proc, ev, sigchld,
                   inHandler, out, kids, got, nwaits, sent, created, nfail,
                   nlines>>
    /\ UNCHANGED uvars
    /\ UNCHANGED hvars

\* the loop of waits: wait(nullptr), once per stage
PipeWait ==
    /\ pc = "pipe_wait" /\ ~inHandler
    /\ i < Len(Stages)
    /\ \E r \in Pids \cup {NoPid} :
          /\ WaitReturns(NoPid, r)
          /\ Collect(r)
    /\ i' = i + 1
    /\ UNCHANGED <<pc, cur, pid, it, jobs, nextJobId, ev, sigchld, inHandler,
                   out, kids, sent, created, nfail,
                   nlines,
                   pipefds>>
    /\ UNCHANGED uvars
    /\ UNCHANGED hvars

\* executePipeline returns, and runCommand with it
PipeReturn ==
    /\ pc = "pipe_wait" /\ ~inHandler
    /\ i = Len(Stages)
    /\ pc' = "ret"
    /\ UNCHANGED <<cur, pid, i, it, jobs, nextJobId, proc, ev, sigchld,
                   inHandler, out, kids, got, nwaits, sent, created, nfail,
                   nlines,
                   pipefds>>
    /\ UNCHANGED uvars
    /\ UNCHANGED hvars

(* --------------------------- specification ---------------------------- *)

Next ==
    \/ ReadEOF
    \/ \E line \in Lines : RunBuiltin(line)
    \/ \E line \in Lines : RunExit(line)
    \/ \E line \in Lines : RunJobs(line)
    \/ \E line \in Lines : JobCtlThrow(line)
    \/ \E line \in Lines : JobCtlNotFound(line)
    \/ \E line \in Lines : JobCtlFound(line)
    \/ \E line \in Lines : RunPipeline(line)
    \/ \E line \in Lines : RunExternal(line)
    \/ Return
    \/ JcKill
    \/ JcWait
    \/ JcErase
    \/ JcMark
    \/ ForkCommand
    \/ FgWait
    \/ BgPush
    \/ BgPrint
    \/ PipeFork
    \/ PipeClose
    \/ PipeWait
    \/ PipeReturn
    \/ \E p \in Pids : ChildExec(p)
    \/ \E p \in Pids : ProcExit(p)
    \/ \E p \in Pids : ProcStop(p)
    \/ \E p \in Pids : ProcCont(p)
    \/ HandlerEnter
    \/ \E p \in Pids : HandlerReap(p)
    \/ HandlerReturn

Spec == Init /\ [][Next]_<<vars, uvars, hvars>>

(* ========================== the unified shell ========================= *)

\* largest magnitude of the exit codes the programs run exit with
MaxCode == 2
\* number of lines typed in one session of the unified shell
MaxULines == 2

Modes == {"WINDOWS", "LINUX", "AUTO_DETECT"}

\* UnifiedShell::initialize: the keys of the map executors
executors == {"WINDOWS", "LINUX"}

\* WindowsExecutor::isWindowsCommand: the table windowsCommands
windowsCommands ==
    { "dir", "copy", "move", "del", "md", "rd", "cd", "type", "cls", "echo",
      "set", "path", "prompt", "title", "color", "date", "time", "ver",
      "vol", "tree", "attrib", "comp", "fc", "find", "findstr", "sort",
      "more", "xcopy", "robocopy", "tasklist", "taskkill", "net", "ping",
      "ipconfig", "netstat", "systeminfo", "driverquery", "reg", "sc",
      "powershell", "cmd", "notepad", "calc", "mspaint", "explorer" }

\* LinuxExecutor::isLinuxCommand: the table linuxCommands
linuxCommands ==
    { "ls", "cat", "grep", "awk", "sed", "sort", "uniq", "head", "tail",
      "wc", "cut", "tr", "find", "locate", "which", "whereis", "file",
      "chmod", "chown", "chgrp", "umask", "ln", "cp", "mv", "rm", "mkdir",
      "rmdir", "pwd", "cd", "pushd", "popd", "du", "df", "mount", "umount",
      "ps", "top", "htop", "kill", "killall", "jobs", "fg", "bg", "nohup",
      "screen", "tmux", "man", "info", "less", "more", "nano", "vim", "emacs",
      "tar", "gzip", "gunzip", "zip", "unzip", "curl", "wget", "ssh", "scp",
      "rsync", "ping", "netstat", "ifconfig", "iptables", "systemctl",
      "service" }

\* CommandDetector::isBuiltinCommand: the table builtins
builtins ==
    { "help", "exit", "quit", "mode", "config", "status", "history", "clear",
      "cls" }

isWindowsCommand(command) == command \in windowsCommands

isLinuxCommand(command) == command \in linuxCommands

isBuiltinCommand(command) == command \in builtins

\* canHandleCommand of the executor registered under mode
canHandleCommand(mode, command) ==
    IF mode = "WINDOWS" THEN isWindowsCommand(command)
                        ELSE isLinuxCommand(command)

\* variant: a name of both tables is given no preference
detectCommandTypeUnsure(command) ==
    IF isBuiltinCommand(command) THEN "AUTO_DETECT"
    ELSE IF isWindowsCommand(command) /\ isLinuxCommand(command) THEN "AUTO_DETECT"
    ELSE IF isWindowsCommand(command) THEN "WINDOWS"
    ELSE IF isLinuxCommand(command) THEN "LINUX"
    ELSE "AUTO_DETECT"

\* CommandDetector::detectCommandType
detectCommandType(command) ==
    IF isBuiltinCommand(command) THEN "AUTO_DETECT"
    ELSE IF isWindowsCommand(command) THEN "WINDOWS"
    ELSE IF isLinuxCommand(command) THEN "LINUX"
    ELSE "AUTO_DETECT"

\* initialize: the executors in the order they are registered
Registered == <<"WINDOWS", "LINUX">>

\* the orders in which the loop over the unordered_map executors may run
Orders == {<<"WINDOWS", "LINUX">>, <<"LINUX", "WINDOWS">>}

\* variant: the executor of the current mode is not asked isAvailable
PinnedUnasked == currentMode # "AUTO_DETECT"

\* selectExecutor: the current mode names an executor and it is available
Pinned == currentMode # "AUTO_DETECT" /\ available[currentMode]

\* variant: the classifier is consulted before the current mode
selectExecutorDetectFirst(command, order) ==
    LET detected == detectCommandType(command)
    IN  IF detected # "AUTO_DETECT" /\ available[detected]
        THEN detected
        ELSE IF Pinned
        THEN currentMode
        ELSE IF available[order[1]] /\ canHandleCommand(order[1], command)
        THEN order[1]
        ELSE IF available[order[2]] /\ canHandleCommand(order[2], command)
        THEN order[2]
        ELSE "none"

\* variant: no executor is looked for beyond the classifier's
selectExecutorNoLoop(command, order) ==
    IF Pinned
    THEN currentMode
    ELSE LET detected == detectCommandType(command)
         IN  IF detected # "AUTO_DETECT" /\ available[detected]
             THEN detected
             ELSE "none"

\* UnifiedShell::selectExecutor, the map being iterated in the given order;
\* "none" is nullptr
selectExecutor(command, order) ==
    IF Pinned
    THEN currentMode
    ELSE LET detected == detectCommandType(command)
         IN  IF detected # "AUTO_DETECT" /\ available[detected]
             THEN detected
             ELSE IF available[order[1]] /\ canHandleCommand(order[1], command)
             THEN order[1]
             ELSE IF available[order[2]] /\ canHandleCommand(order[2], command)
             THEN order[2]
             ELSE "none"

\* UnifiedShell::handleBuiltins: the names it handles
handleBuiltins(words) ==
    words # <<>>
    /\ words[1] \in {"help", "mode", "status", "config", "history", "clear", "cls"}

\* UnifiedShell::getPrompt: the prompt readline shows for the current mode
getPrompt ==
    <<"["
    , CASE currentMode = "WINDOWS" -> "WIN"
        [] currentMode = "LINUX" -> "LNX"
        [] currentMode = "AUTO_DETECT" -> "AUTO"
    , "]> ">>

\* variant: the abbreviation lnx is not among the names of the modes
ModeNamedNoLnx(word) ==
    IF word \in {"windows", "win"} THEN "WINDOWS"
    ELSE IF word = "linux" THEN "LINUX"
    ELSE IF word = "auto" THEN "AUTO_DETECT"
    ELSE "invalid"

\* handleBuiltins, mode with an argument: the mode it sets, if any
ModeNamed(word) ==
    IF word \in {"windows", "win"} THEN "WINDOWS"
    ELSE IF word \in {"linux", "lnx"} THEN "LINUX"
    ELSE IF word = "auto" THEN "AUTO_DETECT"
    ELSE "invalid"

\* a name in neither table and not a built-in
UnknownNames == {"foo"}

Names == windowsCommands \cup linuxCommands \cup builtins \cup UnknownNames

\* the lines typed at the prompt of the unified shell, as their words
ULines ==
    { <<n>> : n \in Names }
    \cup { <<n, "&">> : n \in {"ls"} }
    \cup { <<"mode", m>> : m \in {"windows", "win", "linux", "lnx", "auto", "both"} }
    \cup { <<"ls", "|", "wc">>, <<"ls", ">", "f">> }
    \cup { <<>>, <<"&">> }

\* the exit codes of the programs run
ExitCodes == (0 - MaxCode)..MaxCode

\* the wait status of a process that called exit(c): the low eight bits of c
ExitStatus(c) == (c % 256) * 256

WEXITSTATUS(ws) == (ws \div 256) % 256

\* what system() returns: -1 when no process could be created; the wait
\* status of the command interpreter on a POSIX build, the exit code of
\* the command interpreter on a Windows build
SystemResults ==
    {NoPid} \cup (IF build = "posix" THEN {ExitStatus(c) : c \in ExitCodes}
                                    ELSE ExitCodes)

\* a process the unified shell forked
UForked(argv) == [st |-> "forked", ws |-> 0, argv |-> argv]
UZombie(ws)   == [st |-> "zombie", ws |-> ws, argv |-> <<>>]
UReaped       == [st |-> "reaped", ws |-> 0, argv |-> <<>>]

\* the job-control shell is not running
ShellOff ==
    /\ pc = "off"
    /\ cur = <<>>
    /\ pid = 0
    /\ i = 0
    /\ it = 0
    /\ jobs = <<>>
    /\ nextJobId = 1
    /\ proc = [p \in Pids |-> NoProc]
    /\ ev = [p \in Pids |-> "none"]
    /\ sigchld = FALSE
    /\ inHandler = FALSE
    /\ out = NoOut
    /\ kids = {}
    /\ got = {}
    /\ nwaits = 0
    /\ sent = {}
    /\ created = <<>>
    /\ nfail = 0
    /\ nlines = 0
    /\ pipefds = {}

\* the unified shell after UnifiedShell() and initialize(): the executor of
\* the host system is always available, the other one may or may not be
InitU ==
    /\ ShellOff
    /\ HistoryOff
    /\ build \in {"posix", "win32"}
    /\ available \in [executors -> BOOLEAN]
    /\ available[IF build = "posix" THEN "LINUX" ELSE "WINDOWS"]
    /\ currentMode \in Modes
    /\ upc = "read"
    /\ input = <<>>
    /\ args = <<>>
    /\ background = FALSE
    /\ executor = "none"
    /\ uprocs = <<>>
    /\ upid = 0
    /\ ret = 0
    /\ reported = {}
    /\ ulines = 0
    /\ lastFailed = FALSE
    /\ detectedMode = "none"

(* -------------------- unified shell: run ------------------------------ *)

\* run: readline returned the line, which is handed to executeCommand
UAccepts(line) ==
    /\ upc = "read"
    /\ line \in ULines
    /\ ulines < MaxULines
    /\ ulines' = ulines + 1
    /\ input' = line

\* run: readline returned no line (end of input), the loop is left
UReadEOF ==
    /\ upc = "read"
    /\ upc' = "shutdown"
    /\ UNCHANGED <<detectedMode, lastFailed, build, available, currentMode, input, args, background,
                   executor, uprocs, upid, ret, reported, ulines>>
    /\ UNCHANGED vars
    /\ UNCHANGED hvars

\* run, after the loop: saveHistory, saveConfig, the farewell
UShutdown ==
    /\ upc = "shutdown"
    /\ reported' = reported \cup {<<"Goodbye!", 0>>}
    /\ upc' = "done"
    /\ UNCHANGED <<detectedMode, lastFailed, build, available, currentMode, input, args, background,
                   executor, uprocs, upid, ret, ulines>>
    /\ UNCHANGED vars
    /\ UNCHANGED hvars

\* run: the line is empty, or executeCommand finds no word in it
UBlank(line) ==
    /\ UAccepts(line)
    /\ line = <<>>
    /\ args' = <<>>
    /\ ret' = 0
    /\ upc' = "ret"
    /\ UNCHANGED <<detectedMode, lastFailed, build, available, currentMode, background, executor,
                   uprocs, upid, reported>>
    /\ UNCHANGED vars
    /\ UNCHANGED hvars

\* handleBuiltins: help, status, config, history, clear and cls
UBuiltin(line) ==
    /\ UAccepts(line)
    /\ handleBuiltins(line) /\ line[1] # "mode"
    /\ args' = line
    /\ ret' = 0
    /\ upc' = "ret"
    /\ UNCHANGED <<detectedMode, lastFailed, build, available, currentMode, background, executor,
                   uprocs, upid, reported>>
    /\ UNCHANGED vars
    /\ UNCHANGED hvars

\* handleBuiltins, mode with an argument: setMode, or the complaint
UModeSet(line) ==
    /\ UAccepts(line)
    /\ handleBuiltins(line) /\ line[1] = "mode" /\ Len(line) > 1
    /\ currentMode' = IF ModeNamed(line[2]) = "invalid" THEN currentMode
                      ELSE ModeNamed(line[2])
    /\ reported' = IF ModeNamed(line[2]) = "invalid"
                   THEN {<<"Invalid mode", 0>>}
                   ELSE {<<"Command mode set to", 0>>}
    /\ args' = line
    /\ ret' = 0
    /\ upc' = "ret"
    /\ UNCHANGED <<detectedMode, lastFailed, build, available, background, executor, uprocs, upid>>
    /\ UNCHANGED vars
    /\ UNCHANGED hvars

\* handleBuiltins, mode without an argument: promptForMode
UModePrompt(line) ==
    /\ UAccepts(line)
    /\ handleBuiltins(line) /\ line[1] = "mode" /\ Len(line) = 1
    /\ currentMode' \in Modes
    /\ args' = line
    /\ ret' = 0
    /\ upc' = "ret"
    /\ UNCHANGED <<detectedMode, lastFailed, build, available, background, executor, uprocs, upid,
                   reported>>
    /\ UNCHANGED vars
    /\ UNCHANGED hvars

\* executeCommand: exit and quit return -2
UExit(line) ==
    /\ UAccepts(line)
    /\ line # <<>> /\ ~handleBuiltins(line)
    /\ line[1] \in {"exit", "quit"}
    /\ args' = line
    /\ ret' = -2
    /\ upc' = "ret"
    /\ UNCHANGED <<detectedMode, lastFailed, build, available, currentMode, background, executor,
                   uprocs, upid, reported>>
    /\ UNCHANGED vars
    /\ UNCHANGED hvars

\* executeCommand: selectExecutor returned nullptr; the error message, then
\* suggestCommand
UNoExecutor(line) ==
    /\ UAccepts(line)
    /\ line # <<>> /\ ~handleBuiltins(line)
    /\ line[1] \notin {"exit", "quit"}
    /\ \E order \in Orders : selectExecutor(line[1], order) = "none"
    /\ detectedMode' = IF Pinned THEN "none" ELSE detectCommandType(line[1])
    /\ reported' = {<<"No suitable executor found", 0>>, <<"not found", 0>>}
    /\ args' = line
    /\ ret' = -1
    /\ upc' = "ret"
    /\ UNCHANGED <<lastFailed, build, available, currentMode, background, executor,
                   uprocs, upid>>
    /\ UNCHANGED vars
    /\ UNCHANGED hvars

\* executeCommand: an executor was selected; a last word "&" is taken off
\* and the executor's execute is called
USelect(line) ==
    /\ UAccepts(line)
    /\ line # <<>> /\ ~handleBuiltins(line)
    /\ line[1] \notin {"exit", "quit"}
    /\ \E order \in Orders :
          /\ selectExecutor(line[1], order) # "none"
          /\ executor' = selectExecutor(line[1], order)
    /\ detectedMode' = IF Pinned THEN "none" ELSE detectCommandType(line[1])
    /\ background' = (line[Len(line)] = "&")
    /\ args' = IF line[Len(line)] = "&" THEN SubSeq(line, 1, Len(line) - 1)
               ELSE line
    /\ upc' = "execute"
    /\ UNCHANGED <<lastFailed, build, available, currentMode, uprocs, upid, ret, reported>>
    /\ UNCHANGED vars
    /\ UNCHANGED hvars

\* run: executeCommand returned -2, the loop is left
UBreak ==
    /\ upc = "ret"
    /\ ret = -2
    /\ upc' = "shutdown"
    /\ UNCHANGED <<detectedMode, lastFailed, build, available, currentMode, input, args, background,
                   executor, uprocs, upid, ret, reported, ulines>>
    /\ UNCHANGED vars
    /\ UNCHANGED hvars

\* run: executeCommand returned anything else, the loop goes on
UContinue ==
    /\ upc = "ret"
    /\ ret # -2
    /\ upc' = "read"
    /\ input' = <<>>
    /\ args' = <<>>
    /\ background' = FALSE
    /\ executor' = "none"
    /\ upid' = 0
    /\ ret' = 0
    /\ reported' = {}
    /\ lastFailed' = (~background /\ <<"execvp failed", upid>> \in reported)
    /\ detectedMode' = "none"
    /\ UNCHANGED <<build, available, currentMode, uprocs, ulines>>
    /\ UNCHANGED vars
    /\ UNCHANGED hvars

(* -------------------- unified shell: the executors -------------------- *)

\* execute of either executor: an empty argument vector is refused
UExecEmpty ==
    /\ upc = "execute"
    /\ args = <<>>
    /\ ret' = -1
    /\ upc' = "ret"
    /\ UNCHANGED <<detectedMode, lastFailed, build, available, currentMode, input, args, background,
                   executor, uprocs, upid, reported, ulines>>
    /\ UNCHANGED vars
    /\ UNCHANGED hvars

\* LinuxExecutor::execute, native: fork() created the child
LinuxFork ==
    /\ upc = "execute"
    /\ executor = "LINUX" /\ build = "posix"
    /\ args # <<>>
    /\ uprocs' = Append(uprocs, UForked(args))
    /\ upid' = Len(uprocs) + 1
    /\ IF background
       THEN /\ reported' = {<<"Background process started", Len(uprocs) + 1>>}
            /\ ret' = 0
            /\ upc' = "ret"
       ELSE /\ upc' = "wait"
            /\ UNCHANGED <<reported, ret>>
    /\ UNCHANGED <<detectedMode, lastFailed, build, available, currentMode, input, args, background,
                   executor, ulines>>
    /\ UNCHANGED vars
    /\ UNCHANGED hvars

\* LinuxExecutor::execute, native: fork() returned -1
LinuxForkFailed ==
    /\ upc = "execute"
    /\ executor = "LINUX" /\ build = "posix"
    /\ args # <<>>
    /\ upid' = NoPid
    /\ reported' = {<<"fork failed", 0>>}
    /\ ret' = -1
    /\ upc' = "ret"
    /\ UNCHANGED <<detectedMode, lastFailed, build, available, currentMode, input, args, background,
                   executor, uprocs, ulines>>
    /\ UNCHANGED vars
    /\ UNCHANGED hvars

\* variant: the parent returns the status without waiting for the child
LinuxWaitNoHang ==
    /\ upc = "wait"
    /\ ret' = WEXITSTATUS(uprocs[upid].ws)
    /\ upc' = "ret"
    /\ UNCHANGED <<detectedMode, lastFailed, build, available, currentMode, input, args, background,
                   executor, uprocs, upid, reported, ulines>>
    /\ UNCHANGED vars
    /\ UNCHANGED hvars

\* LinuxExecutor::execute, native, foreground: waitpid(pid, &status, 0)
\* and return WEXITSTATUS(status)
LinuxWait ==
    /\ upc = "wait"
    /\ uprocs[upid].st = "zombie"
    /\ ret' = WEXITSTATUS(uprocs[upid].ws)
    /\ uprocs' = [uprocs EXCEPT ![upid] = UReaped]
    /\ upc' = "ret"
    /\ UNCHANGED <<detectedMode, lastFailed, build, available, currentMode, input, args, background,
                   executor, upid, reported, ulines>>
    /\ UNCHANGED vars
    /\ UNCHANGED hvars

\* LinuxExecutor::execute on a Windows build: system("wsl ...")
LinuxWsl ==
    /\ upc = "execute"
    /\ executor = "LINUX" /\ build = "win32"
    /\ args # <<>>
    /\ ret' \in SystemResults
    /\ upc' = "ret"
    /\ UNCHANGED <<detectedMode, lastFailed, build, available, currentMode, input, args, background,
                   executor, uprocs, upid, reported, ulines>>
    /\ UNCHANGED vars
    /\ UNCHANGED hvars

\* WindowsExecutor::execute: system(...), of cmd.exe on a POSIX build
WindowsSystem ==
    /\ upc = "execute"
    /\ executor = "WINDOWS"
    /\ ~(build = "win32" /\ background)
    /\ args # <<>>
    /\ ret' \in SystemResults
    /\ upc' = "ret"
    /\ UNCHANGED <<detectedMode, lastFailed, build, available, currentMode, input, args, background,
                   executor, uprocs, upid, reported, ulines>>
    /\ UNCHANGED vars
    /\ UNCHANGED hvars

\* WindowsExecutor::execute on a Windows build, background: CreateProcess
WindowsCreateProcess ==
    /\ upc = "execute"
    /\ executor = "WINDOWS"
    /\ build = "win32" /\ background
    /\ args # <<>>
    /\ \E started \in BOOLEAN :
          /\ ret' = IF started THEN 0 ELSE -1
          /\ reported' = IF started
                         THEN {<<"Background process started", 0>>} ELSE {}
    /\ upc' = "ret"
    /\ UNCHANGED <<detectedMode, lastFailed, build, available, currentMode, input, args, background,
                   executor, uprocs, upid, ulines>>
    /\ UNCHANGED vars
    /\ UNCHANGED hvars

(* -------------------- unified shell: the children --------------------- *)

\* variant: after the diagnostic the child does not exit and goes on as a
\* running process
UChildExecReturns(p) ==
    /\ upc \notin {"off", "done"}
    /\ p \in 1..Len(uprocs)
    /\ uprocs[p].st = "forked"
    /\ \E found \in BOOLEAN :
          /\ uprocs' = [uprocs EXCEPT ![p] = [@ EXCEPT !.st = "running"]]
          /\ reported' = IF found THEN reported
                         ELSE reported \cup {<<"execvp failed", p>>}
    /\ UNCHANGED <<detectedMode, lastFailed, build, available, currentMode, upc, input, args,
                   background, executor, upid, ret, ulines>>
    /\ UNCHANGED vars
    /\ UNCHANGED hvars

\* the child of LinuxExecutor::execute: execvp; when it fails the child
\* prints a diagnostic and calls exit(1)
UChildExec(p) ==
    /\ upc \notin {"off", "done"}
    /\ p \in 1..Len(uprocs)
    /\ uprocs[p].st = "forked"
    /\ \E found \in BOOLEAN :
          /\ uprocs' = [uprocs EXCEPT ![p] =
                          IF found THEN [@ EXCEPT !.st = "running"]
                          ELSE UZombie(ExitStatus(1))]
          /\ reported' = IF found THEN reported
                         ELSE reported \cup {<<"execvp failed", p>>}
    /\ UNCHANGED <<detectedMode, lastFailed, build, available, currentMode, upc, input, args,
                   background, executor, upid, ret, ulines>>
    /\ UNCHANGED vars
    /\ UNCHANGED hvars

\* the program a child runs exits with a code, or is killed by signal 9
UChildExit(p) ==
    /\ upc \notin {"off", "done"}
    /\ p \in 1..Len(uprocs)
    /\ uprocs[p].st = "running"
    /\ \E ws \in {ExitStatus(c) : c \in ExitCodes} \cup {9} :
          uprocs' = [uprocs EXCEPT ![p] = UZombie(ws)]
    /\ UNCHANGED <<detectedMode, lastFailed, build, available, currentMode, upc, input, args,
                   background, executor, upid, ret, reported, ulines>>
    /\ UNCHANGED vars
    /\ UNCHANGED hvars

NextU ==
    \/ UReadEOF
    \/ UShutdown
    \/ \E line \in ULines : UBlank(line)
    \/ \E line \in ULines : UBuiltin(line)
    \/ \E line \in ULines : UModeSet(line)
    \/ \E line \in ULines : UModePrompt(line)
    \/ \E line \in ULines : UExit(line)
    \/ \E line \in ULines : UNoExecutor(line)
    \/ \E line \in ULines : USelect(line)
    \/ UBreak
    \/ UContinue
    \/ UExecEmpty
    \/ LinuxFork
    \/ LinuxForkFailed
    \/ LinuxWait
    \/ LinuxWsl
    \/ WindowsSystem
    \/ WindowsCreateProcess
    \/ \E p \in 1..MaxULines : UChildExec(p)
    \/ \E p \in 1..MaxULines : UChildExit(p)

SpecU == InitU /\ [][NextU]_<<vars, uvars, hvars>>

(* =================== the unified shell: the history =================== *)

\* UnifiedShell::MAX_HISTORY, 1000 in the source, scaled down
MAX_HISTORY == 3
\* number of lines of the history file
MaxFile == 4
\* number of addToHistory calls in one session
MaxAdds == 4

\* the command lines entered, and the lines of the history file, among
\* which the empty line
HCommands == {"a", "b"}
HFileLines == HCommands \cup {""}

\* the history files: up to MaxFile lines
HFiles == UNION { [1..n -> HFileLines] : n \in 0..MaxFile }

RECURSIVE loadHistoryFrom(_, _, _)
\* loadHistory: the loop reads a line while the history has fewer than
\* MAX_HISTORY entries and the file has a line, and keeps the non-empty ones
loadHistoryFrom(file, k, h) ==
    IF Len(h) < MAX_HISTORY /\ k <= Len(file)
    THEN loadHistoryFrom(file, k + 1,
                         IF file[k] # "" THEN Append(h, file[k]) ELSE h)
    ELSE h

\* UnifiedShell::loadHistory on the history file
loadHistory(file) == loadHistoryFrom(file, 1, <<>>)

\* the unified shell after initialize(), as far as the history goes
InitH ==
    /\ ShellOff
    /\ UnifiedOff
    /\ \E file \in HFiles : history = loadHistory(file)
    /\ added = history
    /\ nadds = 0
    /\ hpc = "run"

\* variant: the entry just added is the one evicted
addToHistoryDropsNewest(command) ==
    /\ hpc = "run"
    /\ command \in HCommands
    /\ nadds < MaxAdds
    /\ history' = IF Len(history) + 1 > MAX_HISTORY
                  THEN history
                  ELSE Append(history, command)
    /\ added' = Append(added, command)
    /\ nadds' = nadds + 1
    /\ UNCHANGED hpc
    /\ UNCHANGED <<vars, uvars>>

\* UnifiedShell::addToHistory, called by run for every non-empty line:
\* push_back, then erase(begin()) when the size exceeds MAX_HISTORY
addToHistory(command) ==
    /\ hpc = "run"
    /\ command \in HCommands
    /\ nadds < MaxAdds
    /\ history' = IF Len(history) + 1 > MAX_HISTORY
                  THEN Tail(Append(history, command))
                  ELSE Append(history, command)
    /\ added' = Append(added, command)
    /\ nadds' = nadds + 1
    /\ UNCHANGED hpc
    /\ UNCHANGED <<vars, uvars>>

\* configureShell, choice 4: history.clear()
clearHistory ==
    /\ hpc = "run"
    /\ history # <<>>
    /\ history' = <<>>
    /\ added' = <<>>
    /\ UNCHANGED <<nadds, hpc>>
    /\ UNCHANGED <<vars, uvars>>

NextH ==
    \/ \E command \in HCommands : addToHistory(command)
    \/ clearHistory

SpecH == InitH /\ [][NextH]_<<vars, uvars, hvars>>

(* ============================== claims ================================ *)

\* the current line is an external command or pipeline typed without '&'
Foreground ==
    /\ cur # <<>> /\ cur[Len(cur)] # "&"
    /\ Len(splitByPipe(cur)) > 1
       \/ (tokenize(cur) # <<>>
           /\ tokenize(cur)[1] \notin {W_cd, W_export, W_history, W_help,
                                       W_exit, W_Q, W_jobs}
           /\ ~(tokenize(cur)[1] \in {W_fg, W_bg} /\ Len(tokenize(cur)) = 2))

\* the current line is a pipeline and executePipeline is about to return
PipelineReturns ==
    /\ pc = "pipe_wait"
    /\ Len(splitByPipe(Input(cur))) > 1
    /\ i = Len(splitByPipe(Input(cur)))

\* C1: when executePipeline returns, none of the children forked for the
\* pipeline is left unreaped (the parent's waits collected all of them).
C1_PipelineChildrenReaped ==
    PipelineReturns => \A k \in kids : proc[k].st = "reaped"

\* C2: when runCommand returns from a foreground command or foreground
\* pipeline, every process forked for it has terminated.
C2_ForegroundTerminated ==
    (pc = "ret" /\ Foreground) => \A k \in kids : proc[k].st \in {"zombie", "reaped"}

\* C3: once the process of a job has exited and the SIGCHLD handler has run
\* (no SIGCHLD is pending or being handled), the job is not listed Running.
C3_ExitedJobNotRunning ==
    \A k \in 1..Len(jobs) :
        ( /\ jobs[k].pid \in Pids
          /\ proc[jobs[k].pid].st \in {"zombie", "reaped"}
          /\ ~sigchld /\ ~inHandler )
        => ~jobs[k].running

\* the current line is a background launch of a single command whose fork
\* created a child, and runCommand has returned
BackgroundLaunched ==
    /\ pc = "ret"
    /\ cur # <<>> /\ cur[Len(cur)] = "&"
    /\ out.kind = "background"
    /\ pid \in Pids

\* the rows of the table for the process the current launch forked
LaunchedRows == {k \in 1..Len(jobs) : jobs[k].pid = pid}

\* C4 (as claimed): on return from a background launch no wait was made and
\* the table holds exactly one new job, the last one, with the child's
\* process id, the command line and state Running.
C4_LaunchedJobRunning ==
    BackgroundLaunched =>
        /\ nwaits = 0
        /\ LaunchedRows = {Len(jobs)}
        /\ jobs[Len(jobs)].cmdline = SubSeq(cur, 1, Len(cur) - 1)
        /\ jobs[Len(jobs)].running

\* the process has stopped or terminated at some time: it is not a child
\* that has only ever run
HasStoppedOrTerminated(p) ==
    \/ proc[p].st \in {"stopped", "zombie", "reaped"}
    \/ proc[p].st = "running" /\ ev[p] = "continued"

\* C4 (amended): on return from a background launch no wait was made and
\* the table holds exactly one new job, the last one, with the child's
\* process id and the command line; its state is Running unless the child
\* has meanwhile stopped or terminated.
C4_LaunchedJobRecorded ==
    BackgroundLaunched =>
        /\ nwaits = 0
        /\ LaunchedRows = {Len(jobs)}
        /\ jobs[Len(jobs)].cmdline = SubSeq(cur, 1, Len(cur) - 1)
        /\ jobs[Len(jobs)].id = created[Len(created)]
        /\ jobs[Len(jobs)].running \/ HasStoppedOrTerminated(pid)

\* a background launch has returned while its child is still running and
\* the job is listed Running
C4_Witness ==
    /\ BackgroundLaunched
    /\ proc[pid].st = "running"
    /\ jobs[Len(jobs)].running
    /\ Len(jobs) > 1

\* the step reads a line "fg n" or "bg n" with a number n
ReadsJobCtl(n) ==
    /\ pc = "read" /\ cur' # <<>>
    /\ tokenize(cur') \in {<<W_fg, <<DigitChar(n)>> >>, <<W_bg, <<DigitChar(n)>> >>}

\* C5: a step that reads fg n or bg n while no job has id n reports
\* job-not-found and returns; it changes neither the job table nor any
\* process, and sends no signal.
C5_UnknownJobLeavesTable ==
    [][ \A n \in 0..9 :
          (ReadsJobCtl(n) /\ \A k \in 1..Len(jobs) : jobs[k].id # n)
          => /\ pc' = "ret"
             /\ out'.kind = "job not found"
             /\ jobs' = jobs
             /\ sent' = {}
             /\ proc' = proc /\ ev' = ev
             /\ nextJobId' = nextJobId ]_vars

\* fg or bg of an unknown id has been reported while the table holds a job
C5_Witness ==
    /\ pc = "ret"
    /\ out.kind = "job not found"
    /\ jobs # <<>>

\* the current line is "fg n" (isfg) or "bg n" and its job was found
JobCtlRuns(isfg) ==
    /\ cur # <<>>
    /\ Len(tokenize(cur)) = 2
    /\ tokenize(cur)[1] = (IF isfg THEN W_fg ELSE W_bg)
    /\ pc \in {"jc_kill", "jc_wait", "jc_erase", "jc_mark"}
       \/ (pc = "ret" /\ out.kind # "job not found")

\* the id typed on the current fg or bg line
TypedId == DigitVal(tokenize(cur)[2][1])

\* the rows of the table with the id typed
TypedRows == {k \in 1..Len(jobs) : jobs[k].id = TypedId}

\* C6: fg of a job in the table first sends the continue signal to the
\* job's process, then waits, the wait ending only once that process has
\* terminated, then removes the job: the job is in the table until the
\* wait has ended and absent afterwards.
C6_FgSignalsWaitsRemoves ==
    JobCtlRuns(TRUE) =>
        /\ pc = "jc_kill"  => /\ TypedRows = {it}
                              /\ sent = {} /\ nwaits = 0
        /\ pc = "jc_wait"  => /\ TypedRows = {it}
                              /\ sent = {jobs[it].pid} /\ nwaits = 0
        /\ pc = "jc_erase" => /\ TypedRows = {it}
                              /\ sent = {jobs[it].pid} /\ nwaits = 1
                              /\ jobs[it].pid \in Pids
                                   => proc[jobs[it].pid].st = "reaped"
        /\ pc = "ret"      => /\ TypedRows = {}
                              /\ Cardinality(sent) = 1 /\ nwaits = 1
        /\ pc # "jc_mark"

\* fg has removed a job whose process it had to wait for, another job
\* being left in the table
C6_Witness ==
    /\ JobCtlRuns(TRUE)
    /\ pc = "ret"
    /\ got # {}
    /\ jobs # <<>>

\* while bg runs on a job, the job is in the table, no wait is made and
\* the only signal sent is the one to the job's process, before the marking
BgOrder ==
    JobCtlRuns(FALSE) =>
        /\ TypedRows = {it}
        /\ nwaits = 0
        /\ pc = "jc_kill" => sent = {}
        /\ pc \in {"jc_mark", "ret"} => sent = {jobs[it].pid}
        /\ pc \notin {"jc_wait", "jc_erase"}

\* C7: bg of a job in the table sends the continue signal to the job's
\* process and then marks the job Running; the job stays in the table,
\* nothing else in the table changes and no wait is made.
C7_BgSignalsMarksKeeps ==
    [][ /\ BgOrder
        /\ BgOrder'
        /\ (pc = "jc_mark" /\ pc' # pc) =>
             /\ pc' = "ret"
             /\ Len(jobs') = Len(jobs)
             /\ jobs'[it].running
             /\ \A k \in 1..Len(jobs) :
                   /\ jobs'[k].id = jobs[k].id
                   /\ jobs'[k].pid = jobs[k].pid
                   /\ jobs'[k].cmdline = jobs[k].cmdline
                   /\ k # it => jobs'[k].running = jobs[k].running ]_vars

\* bg has continued a stopped job and marked it Running
C7_Witness ==
    /\ JobCtlRuns(FALSE)
    /\ pc = "ret"
    /\ jobs[it].pid \in Pids
    /\ proc[jobs[it].pid].st = "running"
    /\ ev[jobs[it].pid] = "continued"
    /\ jobs[it].running

\* C8: job identifiers are handed out in strictly increasing order, so no
\* two jobs ever created share an id and an id freed by fg is not reused;
\* every job in the table carries an id that was handed out, and the table
\* lists the jobs in ascending id order.
C8_JobIdsIncreasing ==
    /\ \A a, b \in 1..Len(created) : a < b => created[a] < created[b]
    /\ \A a, b \in 1..Len(jobs) : a < b => jobs[a].id < jobs[b].id
    /\ \A k \in 1..Len(jobs) : \E a \in 1..Len(created) : jobs[k].id = created[a]
    /\ \A a \in 1..Len(created) : created[a] < nextJobId

\* a job was created after fg had removed an earlier one
C8_Witness ==
    /\ Len(created) = 2
    /\ Len(jobs) = 1
    /\ jobs[1].id = created[2]
    /\ pc = "ret"

\* the table without the running flags: what identifies its entries
Entries(t) == [k \in 1..Len(t) |-> <<t[k].id, t[k].pid, t[k].cmdline>>]

\* C9: the entries of the table change only when runCommand appends the
\* job of a background launch and when fg erases the job it waited for;
\* no other step, of the handler, of bg or of a process, adds or removes one.
C9_OnlyLaunchAddsOnlyFgRemoves ==
    [][ Entries(jobs') # Entries(jobs) =>
          \/ /\ pc = "bg_push"
             /\ cur[Len(cur)] = "&"
             /\ Len(jobs') = Len(jobs) + 1
             /\ SubSeq(Entries(jobs'), 1, Len(jobs)) = Entries(jobs)
             /\ jobs'[Len(jobs')].pid = pid
          \/ /\ pc = "jc_erase"
             /\ tokenize(cur)[1] = W_fg
             /\ nwaits = 1
             /\ Len(jobs') = Len(jobs) - 1
             /\ \A k \in 1..Len(jobs') : jobs'[k].id # TypedId
             /\ \A k \in 1..Len(jobs) :
                   jobs[k].id # TypedId
                   => \E m \in 1..Len(jobs') : jobs'[m] = jobs[k] ]_vars

\* bg has run on a job whose process was already reaped by the handler,
\* and the job is still in the table
C9_Witness ==
    /\ JobCtlRuns(FALSE)
    /\ pc = "ret"
    /\ jobs[it].pid \in Pids
    /\ proc[jobs[it].pid].st = "reaped"
    /\ got = {}

\* C10: no error of the core terminates the shell: whatever was typed, the
\* shell process has not been terminated.
C10_NoErrorIsFatal == pc # "aborted"

(* ------------- claims on the job-control shell, continued ------------- *)

\* the words name a redirection whose target open() refuses
FailedRedirection(words) ==
    \E k \in 1..(Len(words) - 1) :
        words[k] \in RedirOps /\ ~CanOpen(words[k + 1])

\* C12: when the target of a redirection cannot be opened the stage is
\* aborted before execvp: no process forked for such a command ever runs
\* the command's program.
C12_FailedRedirectionAborts ==
    ( /\ cur # <<>>
      /\ Len(splitByPipe(Input(cur))) = 1
      /\ FailedRedirection(tokenize(Input(cur))) )
    => \A p \in kids : proc[p].st \notin {"running", "stopped"}

\* the number of fork() calls made so far for the current line
ForksDone ==
    IF cur = <<>> THEN 0
    ELSE CASE LineKind(cur) = "external" -> (IF pc = "fork" THEN 0 ELSE 1)
           [] LineKind(cur) = "pipeline" ->
                (IF pc = "pipe_fork" THEN i ELSE Len(splitByPipe(Input(cur))))
           [] OTHER -> 0

\* a fork() made for the current line failed: fewer children than calls
ForkFailed == Cardinality(kids) < ForksDone

\* C13: when fork fails for a command, no job is recorded for the missing
\* process, the parent's waits collect no process but the ones it forked
\* for the command, it signals none, and on return the stages that were
\* forked have terminated.
C13_FailedForkContained ==
    ForkFailed =>
        /\ \A k \in 1..Len(jobs) : jobs[k].pid # NoPid
        /\ got \subseteq kids
        /\ sent = {}
        /\ pc = "ret" => \A k \in kids : Terminated(k)

\* a stage of the current pipeline names a program execvp cannot find
StageFailsExec ==
    \E k \in 1..Len(splitByPipe(Input(cur))) :
        LET words == tokenize(splitByPipe(Input(cur))[k])
        IN  words = <<>> \/ ~Resolvable(words[1])

\* C14: when a stage of a pipeline fails to exec, executePipeline still
\* returns only once every child it forked has terminated and is no longer
\* a zombie, the sibling stages among them.
C14_PartialPipelineWaited ==
    (PipelineReturns /\ StageFailsExec /\ ~ForkFailed)
    => \A k \in kids : proc[k].st = "reaped"

\* the main line is inside a blocking wait made for the current line
InWait ==
    \/ pc = "fg_wait"
    \/ pc = "pipe_wait" /\ i < Len(splitByPipe(Input(cur)))

\* the process id that wait was called with: wait(nullptr) is any child
WaitTarget == IF pc = "fg_wait" THEN pid ELSE NoPid

\* C15: a running background job never blocks the main line: when every
\* process forked for the current foreground command or pipeline has
\* terminated, a wait the main line is in can return, whatever the handler
\* has done meanwhile.
C15_BackgroundNeverBlocks ==
    ( /\ Foreground /\ InWait /\ ~ForkFailed
      /\ \A k \in kids : Terminated(k) )
    => \E r \in Pids \cup {NoPid} : WaitReturns(WaitTarget, r)

\* runCommand has returned from a pipeline typed with '&'
BackgroundPipelineReturned ==
    /\ pc = "ret"
    /\ Background(cur)
    /\ Len(splitByPipe(Input(cur))) > 1

\* C16: on return from a pipeline marked background, the parent has made
\* no wait and the table holds exactly one job for the pipeline, the last
\* one, whose process id is that of the last stage forked.
C16_BackgroundPipelineJob ==
    (BackgroundPipelineReturned /\ ~ForkFailed) =>
        /\ nwaits = 0
        /\ {k \in 1..Len(jobs) : jobs[k].pid \in kids} = {Len(jobs)}
        /\ jobs[Len(jobs)].pid = pid

\* the target of the last of the operators ops in the words ws, each
\* taken with the path that follows it; the wired stream when there is none
FinalTarget(ws, ops, wired) ==
    LET ks == {k \in 1..(Len(ws) - 1) : ws[k] \in ops}
    IN  IF ks = {} THEN wired
        ELSE File(ws[(CHOOSE k \in ks : \A m \in ks : m <= k) + 1])

\* the streams the pipe wiring gives stage c before its redirections
WiredIn(c)  == IF c.stage > 0 THEN Pipe(c.stage - 1) ELSE Tty
WiredOut(c) == IF c.stage < c.n - 1 THEN Pipe(c.stage) ELSE Tty

\* C23: the program of a stage runs with each stream on the target of the
\* last redirection written for that stream, which overrides the pipe of
\* the stage; without a redirection the stream is the pipe, or the terminal.
C23_LastRedirectionWins ==
    [][ \A p \in Pids :
          (proc[p].st = "forked" /\ proc'[p].st = "running") =>
              /\ proc'[p].in = FinalTarget(tokenize(proc[p].cmd), {<<"<">>},
                                           WiredIn(proc[p]))
              /\ proc'[p].out = FinalTarget(tokenize(proc[p].cmd),
                                            RedirOps \ {<<"<">>},
                                            WiredOut(proc[p])) ]_<<vars, uvars>>

\* the jobs whose process has terminated and was collected, and which the
\* table records as not running
DoneJobs ==
    { <<jobs[k].id, jobs[k].pid>> : k \in
        { n \in 1..Len(jobs) : /\ jobs[n].pid \in Pids
                               /\ proc[jobs[n].pid].st = "reaped"
                               /\ ~jobs[n].running } }

\* the jobs the table records as running
RunningJobs ==
    { <<jobs[k].id, jobs[k].pid>> : k \in
        { n \in 1..Len(jobs) : jobs[n].running } }

\* C22: a job whose process has terminated and which the table records as
\* finished is never again recorded as Running, whatever reaps, fg and bg
\* follow: Done is terminal.
C22_DoneIsTerminal ==
    [][ DoneJobs \cap RunningJobs' = {} ]_<<vars, uvars>>

\* the processes of the current pipeline holding the end e of pipe k, the
\* shell being process 0
Holders(k, e) ==
    {p \in kids : <<k, e>> \in Holds(p)}
    \cup (IF <<k, e>> \in pipefds THEN {0} ELSE {})

\* executePipeline has closed the shell's pipe descriptors and every stage
\* forked for the line is past its wiring
PipelineWired ==
    /\ pc \in {"pipe_wait", "ret"}
    /\ Len(splitByPipe(Input(cur))) > 1
    /\ \A p \in kids : proc[p].st # "forked"

\* all the stages of the pipeline were forked and their programs run
AllStagesRun ==
    /\ PipelineWired
    /\ Cardinality(kids) = Len(splitByPipe(Input(cur)))
    /\ \A p \in kids : proc[p].st \in {"running", "stopped"}

TableOperationInProgress ==
    pc \in {"bg_push", "jc_kill", "jc_wait", "jc_erase", "jc_mark"}

\* C28: the SIGCHLD handler never runs while an insertion (background
\* launch), a removal (fg) or an update (bg) of the job table is in
\* progress on the main line.
C28_TableAccessSerialized == inHandler => ~TableOperationInProgress

\* the state the table records for the job at position k: the entry's one
\* field of state
Recorded(k) == jobs[k].running

\* the handler has recorded the termination of the process of job k
RecordedDone(k) ==
    /\ jobs[k].pid \in Pids
    /\ proc[jobs[k].pid].st = "reaped"
    /\ ~jobs[k].running

\* the process of job k is stopped and the handler has been told
RecordedStopped(k) ==
    /\ jobs[k].pid \in Pids
    /\ proc[jobs[k].pid].st = "stopped"
    /\ ev[jobs[k].pid] = "none"

\* C30: the handler records an exited or killed process as Done and a
\* stopped one as Stopped, and the table tells the two apart: a job recorded
\* Done and a job whose stop was recorded never have the same recorded state.
C30_StatesDistinguishable ==
    \A a, b \in 1..Len(jobs) :
        (RecordedDone(a) /\ RecordedStopped(b)) => Recorded(a) # Recorded(b)

\* the number of pipes the shell has both ends of
PipesOpen == Cardinality({k \in 0..MaxStages : {<<k, "r">>, <<k, "w">>} \subseteq pipefds})

StdEnds(p) ==
    (IF proc[p].in.k = "pipe" THEN {<<proc[p].in.n, "r">>} ELSE {})
    \cup (IF proc[p].out.k = "pipe" THEN {<<proc[p].out.n, "w">>} ELSE {})

NativeForegroundReturned ==
    /\ upc = "ret"
    /\ executor = "LINUX" /\ build = "posix"
    /\ ~background
    /\ upid \in 1..Len(uprocs)

\* execvp failed in the child forked for the current line
ExecFailed == <<"execvp failed", upid>> \in reported

\* a foreground command is waited for: while the parent waits the child is
\* there, and on return the child was collected and its exit status is the
\* value returned, 1 when execvp failed
WaitedFor ==
    /\ upc = "wait" => /\ upid \in 1..Len(uprocs)
                       /\ uprocs[upid].st # "reaped"
    /\ NativeForegroundReturned =>
          /\ uprocs[upid].st = "reaped"
          /\ ret \in 0..255
          /\ ExecFailed => ret = 1

\* C11: when execvp fails for the command of a single-command line, the
\* failure is reported and the shell goes on to read the next line; a
\* command entered next is forked and waited for like any other.
C11_ExecFailureSurvived ==
    [][ /\ WaitedFor'
        /\ (NativeForegroundReturned /\ ExecFailed /\ upc' # upc) =>
              /\ upc' = "read"
              /\ lastFailed' ]_<<vars, uvars>>

\* right after a command whose execvp failed, a command that execvp found
\* was run and waited for
C11_Witness ==
    /\ NativeForegroundReturned
    /\ lastFailed
    /\ ~ExecFailed
    /\ uprocs[upid].st = "reaped"
    /\ upid = 2

\* C17: the read loop of the unified shell is left only at end of input
\* or on a line whose command is exit or quit, and such a line does end
\* it; whatever an executed command returns, the loop goes on; once the
\* loop is left the shutdown path (saving, farewell) is run.
C17_OnlyEofOrExitEnds ==
    /\ upc \in {"shutdown", "done"} =>
          input = <<>> \/ input[1] \in {"exit", "quit"}
    /\ (upc = "ret" /\ input # <<>> /\ input[1] \in {"exit", "quit"}) =>
          ret = -2
    /\ upc = "done" => <<"Goodbye!", 0>> \in reported

\* a command name was typed and handed to selectExecutor
Selected ==
    /\ upc \in {"execute", "wait", "ret"}
    /\ input # <<>>
    /\ input[1] \notin {"help", "mode", "status", "config", "history",
                         "clear", "cls", "exit", "quit"}

\* C18: whenever detectCommandType is applied to a name, it returns LINUX
\* for a name of the Linux table, WINDOWS for a name of the Windows table
\* and AUTO_DETECT (no preference) for a name of neither table.
C18_ClassifierFollowsTables ==
    (Selected /\ detectedMode # "none") =>
        /\ input[1] \in linuxCommands => detectedMode = "LINUX"
        /\ input[1] \in windowsCommands => detectedMode = "WINDOWS"
        /\ input[1] \notin linuxCommands \cup windowsCommands
              => detectedMode = "AUTO_DETECT"

\* C19: no command name is in both tables: no name typed is accepted by
\* isWindowsCommand and by isLinuxCommand.
C19_TablesDisjoint ==
    Selected => ~(input[1] \in windowsCommands /\ input[1] \in linuxCommands)

\* C20: when the current mode names an executor and that executor is
\* available, selectExecutor returns it for every command name, whatever
\* table the name is in.
C20_PinnedModeWins ==
    ( /\ Selected
      /\ currentMode # "AUTO_DETECT"
      /\ available[currentMode] )
    => executor = currentMode

\* in Windows mode a name found only in the Linux table, which the
\* Windows executor's canHandleCommand refuses, went to the Windows executor
C20_Witness ==
    /\ Selected
    /\ currentMode = "WINDOWS" /\ available["WINDOWS"] /\ available["LINUX"]
    /\ input[1] \in linuxCommands \ windowsCommands
    /\ executor = "WINDOWS"
    /\ upc = "ret"

\* the executor the selection falls back to for the name typed: the
\* classifier's when it is available, else the first registered executor
\* that is available and accepts the name
Fallback ==
    IF detectedMode \in executors /\ available[detectedMode]
    THEN detectedMode
    ELSE IF \E k \in 1..Len(Registered) :
                available[Registered[k]] /\ canHandleCommand(Registered[k], input[1])
    THEN Registered[CHOOSE k \in 1..Len(Registered) :
            /\ available[Registered[k]] /\ canHandleCommand(Registered[k], input[1])
            /\ \A j \in 1..(k - 1) :
                  ~(available[Registered[j]] /\ canHandleCommand(Registered[j], input[1]))]
    ELSE "none"

\* selectExecutor returned nullptr for the name typed
NotFound == Selected /\ executor = "none"

\* C21: when no pinned executor applies, selectExecutor returns the
\* classifier's executor if it is available, otherwise the first executor in
\* registration order that is available and accepts the name, otherwise
\* nullptr; on nullptr executeCommand prints the error and the suggestion,
\* creates no process, returns -1, and the read loop goes on.
C21_FallbackSelection ==
    [][ /\ (Selected /\ ~Pinned)' => executor' = Fallback'
        /\ NotFound' =>
              /\ upc' = "ret" /\ ret' = -1 /\ upid' = 0
              /\ <<"No suitable executor found", 0>> \in reported'
              /\ <<"not found", 0>> \in reported'
        /\ (upc = "read" /\ NotFound') => Len(uprocs') = Len(uprocs)
        /\ (NotFound /\ upc' # upc) => upc' = "read" ]_<<vars, uvars>>

\* the classifier named the Windows executor, which is not available, and
\* the loop over the executors found the Linux executor, which ran the
\* command
C21_Witness ==
    /\ Selected /\ ~Pinned
    /\ detectedMode = "WINDOWS" /\ ~available["WINDOWS"]
    /\ executor = "LINUX"
    /\ upc = "ret"

\* the prompt the claim gives for the argument of the mode built-in
PromptFor(word) ==
    CASE word \in {"windows", "win"} -> <<"[", "WIN", "]> ">>
      [] word \in {"linux", "lnx"} -> <<"[", "LNX", "]> ">>
      [] word = "auto" -> <<"[", "AUTO", "]> ">>
      [] OTHER -> <<>>

\* C24: when the read loop comes back to the prompt after `mode windows`
\* (or win), `mode linux` (or lnx) or `mode auto`, the prompt is [WIN]> ,
\* [LNX]> or [AUTO]> ; a mode line with any other argument leaves the mode
\* as it was; and the mode changes on no line but a mode line.
C24_PromptFollowsMode ==
    [][ /\ ( /\ upc = "ret" /\ upc' = "read"
             /\ Len(input) = 2 /\ input[1] = "mode"
             /\ PromptFor(input[2]) # <<>> )
           => getPrompt' = PromptFor(input[2])
        /\ ( /\ upc = "read" /\ Len(input') = 2 /\ input'[1] = "mode"
             /\ PromptFor(input'[2]) = <<>> )
           => currentMode' = currentMode
        /\ currentMode' # currentMode
           => (upc = "read" /\ input' # <<>> /\ input'[1] = "mode")
      ]_<<vars, uvars>>

\* on a Windows build, where the Linux mode is not the host's, `mode lnx`
\* was typed as the second line and the mode is now LINUX
C24_Witness ==
    /\ upc = "ret"
    /\ input = <<"mode", "lnx">>
    /\ build = "win32"
    /\ ulines = 2
    /\ getPrompt = <<"[", "LNX", "]> ">>

\* C25: in every mode a name typed that is in neither command table is
\* rejected: no executor is given it, the suggestion is printed and no
\* process is created for it.
C25_UnknownRejected ==
    (Selected /\ input[1] \in UnknownNames) =>
        /\ executor = "none"
        /\ upc = "ret" /\ upid = 0
        /\ <<"not found", 0>> \in reported

\* the words of a line that are pipeline or redirection operators
Operators == {"|", ">", ">>", "<"}

\* the number of '|' words among the words ws
Bars(ws) == Cardinality({k \in 1..Len(ws) : ws[k] = "|"})

\* C26: when the native executor creates processes for a line, a line with
\* k '|' operators gets k+1 of them, and none of them is handed an operator
\* |, >, >> or < as an argument.
C26_PipelinesAndRedirection ==
    [][ (upc = "execute" /\ Len(uprocs') # Len(uprocs)) =>
            /\ Len(uprocs') = Len(uprocs) + Bars(args) + 1
            /\ \A p \in (Len(uprocs) + 1)..Len(uprocs') :
                  \A k \in 1..Len(uprocs'[p].argv) :
                      uprocs'[p].argv[k] \notin Operators ]_<<vars, uvars>>

\* process p has terminated
UTerminated(p) == uprocs[p].st \in {"zombie", "reaped"}

C33_SelectedIsAvailable ==
    (Selected /\ executor # "none") => available[executor]

\* the mode names the Linux executor, which is not available (a Windows
\* build without WSL), and the name typed went to the Windows executor
C33_Witness ==
    /\ Selected
    /\ currentMode = "LINUX" /\ ~available["LINUX"]
    /\ executor = "WINDOWS"
    /\ upc = "ret"

\* C34: for the name typed, the mode and the availabilities, selectExecutor
\* returns the same executor (or nullptr) in whatever order the map of
\* executors is walked: the executor a line gets is the result for every
\* order.
C34_SelectionDeterministic ==
    [][ (upc = "read" /\ Selected') =>
            \A order \in Orders : executor' = selectExecutor(input'[1], order)
      ]_<<vars, uvars>>

\* the walk over the map decided: the classifier's executor is not
\* available, both executors accept the name, and the Linux executor is
\* about to run it
C34_Witness ==
    /\ Selected /\ upc = "execute"
    /\ ~Pinned
    /\ detectedMode = "WINDOWS" /\ ~available["WINDOWS"]
    /\ input[1] \in windowsCommands \cap linuxCommands
    /\ executor = "LINUX"

(* ------------------ claims on the unified shell's history ------------- *)

\* the last n elements of the sequence q, all of q when it has fewer
LastOf(q, n) ==
    IF Len(q) <= n THEN q ELSE SubSeq(q, Len(q) - n + 1, Len(q))

\* C35: after any sequence of addToHistory calls the history holds at most
\* MAX_HISTORY entries, and they are the most recent of the commands
\* loaded and added, in the order they were added: the oldest goes first.
C35_HistoryBounded ==
    hpc = "run" =>
        /\ Len(history) <= MAX_HISTORY
        /\ history = LastOf(added, MAX_HISTORY)

\* more commands were added than the history holds: the oldest are gone
C35_Witness ==
    /\ hpc = "run"
    /\ nadds > 0
    /\ Len(added) > MAX_HISTORY
    /\ Len(history) = MAX_HISTORY
    /\ history[MAX_HISTORY] = added[Len(added)]
    /\ history # SubSeq(added, 1, MAX_HISTORY)

====
